---- MODULE Spec2Model ----
(***************************************************************************)
(* Model of the room state and message-fanout engine of partage            *)
(* (src/src/main.rs): the room registry, the rooms with their membership   *)
(* sets, broadcast channels and content cells, the per-room persister      *)
(* task, the per-connection session (handle_socket) and the HTTP handlers  *)
(* get_rooms and remove_room.                                              *)
(***************************************************************************)
EXTENDS Integers, Sequences, FiniteSets, Bags, TLC

(***************************************************************************)
(* Bounds of the model.                                                    *)
(***************************************************************************)
\* number of websocket connections that are opened
NSess == 2
\* number of RoomState values ever constructed (RoomState::new calls)
MaxInst == 3
\* number of text frames one connection sends while Relaying
MaxFrames == 1
\* number of text frames the connection of SpecPersist sends while Relaying
MaxEdits == 2
\* number of binary frames one connection sends
MaxPings == 2
\* capacity of a room's broadcast channel (broadcast::channel(100) in the
\* source, scaled down so that an overflow is reachable)
BufCap == 2

\* number of tasks that take locks at the same time in SpecLocks
NTask == 3

Sessions == 1..NSess
Insts == 1..MaxInst
\* the tasks of SpecLocks and the connections they belong to
LockTasks == 1..NTask
Conns == {1, 2}

\* the default room of main() and remove_room
DefaultRoom == "general"
RoomIds == {"general", "r1"}
\* what a connection sends: the first connection joins as "a" or with an
\* empty username and sends "x", the others join as "a" or "b" and send "y"
NamesOf(s) == IF s = 1 THEN {"", "a"} ELSE {"a", "b"}
TextsOf(s) == IF s = 1 THEN {"x"} ELSE {"y"}
\* the text frames the connection of SpecPersist sends: any text, the empty
\* one included
EditTexts == {"x", "y", ""}
\* String::new(), the content of a fresh room
EmptyContent == ""
\* first byte of an inbound binary frame: 0x9 is the liveness probe
BinTags == {9, 1}
\* absent Option<String> value of a SocketMessage
NoValue == "<none>"
\* absent row of the rooms table
NoRow == "<norow>"
\* a field that is missing from a JSON object
Missing == "<missing>"

VARIABLES
  dbOn,       \* AppState.db is Some
  db,         \* the rooms table: room id -> content or NoRow
  rooms,      \* AppState.rooms: room id -> RoomState instance, 0 when absent
  nextInst,   \* the next RoomState instance to be constructed
  instRoom,   \* RoomState instance -> the room id it was constructed for
  users,      \* RoomState.users
  content,    \* RoomState.content_tx / content_rx (the watch cell)
  pPc,        \* persister task of the instance: none, start, idle, writing
  pLast,      \* persister task: last_content
  roomsLock,  \* holder of the AppState.rooms mutex across await points
  pc,         \* position of handle_socket
  connected,  \* the peer of the connection is still there
  username,   \* handle_socket: username
  channel,    \* handle_socket: channel
  snap,       \* handle_socket: content (snapshot taken in the join block)
  tx,         \* handle_socket: tx (instance whose broadcast sender was cloned)
  subscribed, \* handle_socket: rx is alive
  rxq,        \* events waiting in rx
  lagged,     \* rx has been overrun: the next recv returns Err(Lagged)
  sendPc,     \* position of the send_messages task
  text,       \* send_messages: the text frame being relayed
  peers,      \* ghost: the other sessions that were Relaying with the same
              \* room identifier when that frame was read
  frames,     \* text frames consumed while Relaying
  pings,      \* binary frames tagged 0x9 read from the connection
  out,        \* frames written to the connection's sink (of a live session)
  rmPc,       \* position of remove_room
  rmId,       \* remove_room: room.0
  removed,    \* ghost: the room ids whose removal has succeeded and which no
              \* join has created again
  response,   \* response of remove_room, when the last step returned one
  listing,    \* response of get_rooms, when the last step returned one
  mRooms,     \* SpecLocks: the task that holds the AppState.rooms mutex, or 0
  mUsers,     \* SpecLocks: room id -> the task that holds RoomState.users, or 0
  mSender,    \* SpecLocks: connection -> the task that holds its sender mutex, or 0
  tOp,        \* SpecLocks: the operation the task runs, or "none"
  tIdx,       \* SpecLocks: the next instruction of that operation
  tRoom       \* SpecLocks: the room id the operation is about

vars == <<dbOn, db, rooms, nextInst, instRoom, users, content, pPc, pLast,
          roomsLock, pc, connected, username, channel, snap, tx, subscribed,
          rxq, lagged, sendPc, text, peers, frames, pings, out,
          rmPc, rmId, removed, response, listing,
          mRooms, mUsers, mSender, tOp, tIdx, tRoom>>

roomVars == <<rooms, nextInst, instRoom, users, content>>
persistVars == <<db, pPc, pLast>>
sessVars == <<pc, connected, username, channel, snap, tx, sendPc, text, peers, frames,
             pings, out>>
subVars == <<subscribed, rxq, lagged>>
rmVars == <<rmPc, rmId, removed>>
lockVars == <<mRooms, mUsers, mSender, tOp, tIdx, tRoom>>

(***************************************************************************)
(* Wire values.                                                            *)
(***************************************************************************)
\* A SocketMessage as serialised by json!(..).to_string(): type, value
\* (NoValue when None) and username ("" when omitted).  The field room is a
\* ghost: the room identifier of the session or request that published it.
SocketMessage(type, value, uname, room) ==
  [type |-> type, value |-> value, username |-> uname, room |-> room]

\* Message::Binary(vec![0xA])
PongFrame == [type |-> "binary", value |-> "0xA", username |-> "", room |-> ""]

\* Inbound text frames of a connection in Connecting: text that is not JSON,
\* and JSON objects with or without the fields username and channel.
JoinFrames(s) ==
  {[json |-> FALSE, username |-> Missing, channel |-> Missing]} \cup
  [json : {TRUE}, username : NamesOf(s) \cup {Missing}, channel : RoomIds \cup {Missing}]

\* serde_json::from_str::<Connect>: both fields are required
ParseConnect(f) ==
  IF f.json /\ f.username # Missing /\ f.channel # Missing
  THEN [ok |-> TRUE, username |-> f.username, channel |-> f.channel]
  ELSE [ok |-> FALSE, username |-> "", channel |-> ""]

\* Err(CustomError { message }) is answered with StatusCode::BAD_REQUEST
BadRequest == 400
\* Ok(Json(..)) is answered with 200
StatusOk == 200

NoResponse == [id |-> "", status |-> 0, message |-> ""]
ErrResponse(id, msg) == [id |-> id, status |-> BadRequest, message |-> msg]
OkResponse(id, msg) == [id |-> id, status |-> StatusOk, message |-> msg]
\* no get_rooms response
NoListing == EmptyBag

(***************************************************************************)
(* Rooms.                                                                  *)
(***************************************************************************)
\* keys of the registry
RoomKeys(rs) == {r \in RoomIds : rs[r] # 0}

\* a set that takes a name only while it is empty (not what HashSet::insert
\* does)
InsertUserIfEmpty(set, u) == IF set = {} THEN {u} ELSE set

\* HashSet::insert
InsertUser(set, u) == set \cup {u}

\* a removal that leaves the set as it is (not what HashSet::remove does)
RemoveUserNone(set, u) == set

\* HashSet::remove
RemoveUser(set, u) == set \ {u}

\* position of the persister task RoomState::new spawns
PersisterSpawn(hasDb) == IF hasDb THEN "start" ELSE "none"

(***************************************************************************)
(* Broadcast channels.  Every subscribed session holds the events that     *)
(* were sent after it subscribed and that it has not received yet; the     *)
(* channel keeps BufCap events, a receiver that falls further behind loses *)
(* the oldest one and its next recv reports Lagged.                        *)
(***************************************************************************)
Enqueue(q, e) == IF Len(q) < BufCap THEN Append(q, e) ELSE Append(Tail(q), e)

\* the queues after broadcast::Sender::send of e on each channel of chs,
\* sub telling which receivers are alive
QueuesAfter(sub, q, chs, e) ==
  [s \in Sessions |-> IF sub[s] /\ tx[s] \in chs THEN Enqueue(q[s], e) ELSE q[s]]

\* the receivers that this send overruns
LaggedAfter(sub, q, lg, chs) ==
  [s \in Sessions |-> lg[s] \/ (sub[s] /\ tx[s] \in chs /\ Len(q[s]) = BufCap)]

\* broadcast::Sender::send of e on each channel of chs
SendAll(chs, e) ==
  /\ rxq' = QueuesAfter(subscribed, rxq, chs, e)
  /\ lagged' = LaggedAfter(subscribed, rxq, lagged, chs)

\* SplitSink::send on the connection of s: the frame is written when the
\* peer is there, the error of a failed send is ignored by the caller
SinkSend(s, frame) ==
  out' = [out EXCEPT ![s] = IF connected[s] THEN Append(@, frame) ELSE @]

(***************************************************************************)
(* main: the registry after startup.  With a database, the rooms table may *)
(* already hold rows, each restored as a room; "general" is always seeded. *)
(***************************************************************************)
InitTables ==
  {[r \in RoomIds |-> NoRow],
   [r \in RoomIds |-> IF r = DefaultRoom THEN EmptyContent ELSE NoRow],
   [r \in RoomIds |-> IF r = DefaultRoom THEN NoRow ELSE "x"]}

InitWith(hasDb) ==
  /\ dbOn = hasDb
  /\ db \in (IF dbOn THEN InitTables ELSE {[r \in RoomIds |-> NoRow]})
  /\ rooms = [r \in RoomIds |->
               IF r = DefaultRoom THEN 1 ELSE IF db[r] # NoRow THEN 2 ELSE 0]
  /\ nextInst = 1 + Cardinality(RoomKeys(rooms))
  /\ instRoom = [c \in Insts |->
               IF c = 1 THEN DefaultRoom
               ELSE IF c = 2 /\ rooms["r1"] = 2 THEN "r1" ELSE ""]
  /\ users = [c \in Insts |-> {}]
  /\ content = [c \in Insts |->
               IF c < nextInst /\ db[instRoom[c]] # NoRow
               THEN db[instRoom[c]] ELSE EmptyContent]
  /\ pPc = [c \in Insts |-> IF c < nextInst THEN PersisterSpawn(dbOn) ELSE "none"]
  /\ pLast = [c \in Insts |-> EmptyContent]
  /\ roomsLock = "free"
  /\ pc = [s \in Sessions |-> "Connecting"]
  /\ connected = [s \in Sessions |-> TRUE]
  /\ username = [s \in Sessions |-> ""]
  /\ channel = [s \in Sessions |-> ""]
  /\ snap = [s \in Sessions |-> EmptyContent]
  /\ tx = [s \in Sessions |-> 0]
  /\ subscribed = [s \in Sessions |-> FALSE]
  /\ rxq = [s \in Sessions |-> <<>>]
  /\ lagged = [s \in Sessions |-> FALSE]
  /\ sendPc = [s \in Sessions |-> "none"]
  /\ text = [s \in Sessions |-> EmptyContent]
  /\ peers = [s \in Sessions |-> {}]
  /\ frames = [s \in Sessions |-> 0]
  /\ pings = [s \in Sessions |-> 0]
  /\ out = [s \in Sessions |-> <<>>]
  /\ rmPc = "idle"
  /\ rmId = ""
  /\ removed = {}
  /\ response = NoResponse
  /\ listing = NoListing
  /\ mRooms = 0
  /\ mUsers = [r \in RoomIds |-> 0]
  /\ mSender = [c \in Conns |-> 0]
  /\ tOp = [t \in LockTasks |-> "none"]
  /\ tIdx = [t \in LockTasks |-> 1]
  /\ tRoom = [t \in LockTasks |-> DefaultRoom]

\* a step that serves no HTTP request leaves no response behind: response
\* and listing hold what the last step returned to its HTTP client
ClearOutput == response' = NoResponse /\ listing' = NoListing

\* the locals of handle_socket and of its tasks are dropped once
\* handle_socket has returned and send_messages has stopped
DropLocals(s, f, empty) == [f EXCEPT ![s] = empty]

(***************************************************************************)
(* handle_socket: the Connecting loop.                                     *)
(***************************************************************************)
\* the peer goes away; from then on reads end the stream and sends fail
\* (taken where a read or a write of the socket can follow)
ConnDrop(s) ==
  /\ pc[s] \in {"Connecting", "Joined", "Relaying"}
  /\ connected[s]
  /\ connected' = [connected EXCEPT ![s] = FALSE]
  /\ UNCHANGED <<lockVars, dbOn, roomVars, persistVars, roomsLock, pc, username, channel,
                 snap, tx, sendPc, text, peers, frames, pings, out, subVars,
                 rmVars>>
  /\ ClearOutput

\* a reply to every binary frame, whatever its first byte
send_pong_frameAny(s, b) == SinkSend(s, PongFrame)

\* send_pong_frame: the reply to a binary frame whose first byte is b
send_pong_frame(s, b) ==
  IF b = 9 THEN SinkSend(s, PongFrame) ELSE UNCHANGED out

\* receiver.next() yields None or an error before any join frame: the loop
\* ends with tx = None and handle_socket returns
ConnectingEnd(s) ==
  /\ pc[s] = "Connecting"
  /\ ~connected[s]
  /\ pc' = [pc EXCEPT ![s] = "Closed"]
  /\ UNCHANGED <<lockVars, dbOn, roomVars, persistVars, roomsLock, connected, username,
                 channel, snap, tx, sendPc, text, peers, frames, pings, out,
                 subVars, rmVars>>
  /\ ClearOutput

\* a binary frame before the join frame
ConnectingBinary(s, b) ==
  /\ pc[s] = "Connecting"
  /\ connected[s]
  /\ pings[s] < MaxPings
  /\ pings' = [pings EXCEPT ![s] = IF b = 9 THEN @ + 1 ELSE @]
  /\ send_pong_frame(s, b)
  /\ UNCHANGED <<lockVars, dbOn, roomVars, persistVars, roomsLock, pc, connected, username,
                 channel, snap, tx, sendPc, text, peers, frames, subVars,
                 rmVars>>
  /\ ClearOutput

\* a malformed join frame that is answered with nothing: the session just
\* closes
JoinMalformedSilent(s, f) ==
  /\ pc[s] = "Connecting"
  /\ connected[s]
  /\ ~ParseConnect(f).ok
  /\ pc' = [pc EXCEPT ![s] = "Closed"]
  /\ connected' = [connected EXCEPT ![s] = FALSE]
  /\ UNCHANGED <<lockVars, dbOn, roomVars, persistVars, roomsLock, username,
                 channel, snap, tx, sendPc, text, peers, frames, pings, out,
                 subVars, rmVars>>
  /\ ClearOutput

\* a text frame that does not parse as Connect: one Error event, then break
\* with tx = None, and handle_socket returns
JoinMalformed(s, f) ==
  /\ pc[s] = "Connecting"
  /\ connected[s]
  /\ ~ParseConnect(f).ok
  /\ SinkSend(s, SocketMessage("error", "Invalid JSON", "", ""))
  /\ pc' = [pc EXCEPT ![s] = "Closed"]
  /\ connected' = [connected EXCEPT ![s] = FALSE]
  /\ UNCHANGED <<lockVars, dbOn, roomVars, persistVars, roomsLock, username,
                 channel, snap, tx, sendPc, text, peers, frames, pings,
                 subVars, rmVars>>
  /\ ClearOutput

\* a join block that clones the sender of the default room whatever the
\* channel (not what the join block does)
JoinTargetDefault(r, existing, fresh) == rooms[DefaultRoom]

\* the room whose sender the join block clones: the entry of the channel
JoinTarget(r, existing, fresh) == IF existing # 0 THEN existing ELSE fresh

\* the join block, under the registry lock: entry().or_insert_with, clone of
\* the room's sender, insert of the username, snapshot of the content
JoinBlock(s, f) ==
  LET c == ParseConnect(f)
      r == c.channel
      isNew == rooms[r] = 0
      i == JoinTarget(r, rooms[r], nextInst)
  IN
  /\ pc[s] = "Connecting"
  /\ connected[s]
  /\ c.ok
  /\ roomsLock = "free"
  /\ isNew => nextInst <= MaxInst
  /\ rooms' = [rooms EXCEPT ![r] = IF isNew THEN nextInst ELSE @]
  /\ nextInst' = IF isNew THEN nextInst + 1 ELSE nextInst
  /\ instRoom' = IF isNew THEN [instRoom EXCEPT ![nextInst] = r] ELSE instRoom
  /\ content' = IF isNew THEN [content EXCEPT ![nextInst] = EmptyContent] ELSE content
  /\ pPc' = IF isNew THEN [pPc EXCEPT ![nextInst] = PersisterSpawn(dbOn)] ELSE pPc
  /\ users' = [users EXCEPT ![rooms'[r]] = InsertUser(IF isNew THEN {} ELSE @, c.username)]
  /\ tx' = [tx EXCEPT ![s] = i]
  /\ username' = [username EXCEPT ![s] = c.username]
  /\ channel' = [channel EXCEPT ![s] = r]
  /\ snap' = [snap EXCEPT ![s] = content'[rooms'[r]]]
  /\ pc' = [pc EXCEPT ![s] = "Joined"]
  /\ removed' = removed \ {r}
  /\ UNCHANGED <<lockVars, dbOn, db, pLast, roomsLock, connected, sendPc, text, peers,
                 frames, pings, out, subVars, rmPc, rmId>>
  /\ ClearOutput

\* the rooms a join to room r notifies: every room of the registry but r
OtherRooms(r) == {rooms[q] : q \in RoomKeys(rooms) \ {r}}

\* a guard that tests the channel handle only: a join with an empty
\* username goes on like any other
JoinNotifyAny(s) ==
  /\ pc[s] = "Joined"
  /\ roomsLock = "free"
  /\ SendAll(OtherRooms(channel[s]),
             SocketMessage("update-rooms-list", NoValue, "", channel[s]))
  /\ pc' = [pc EXCEPT ![s] = "Notified"]
  /\ UNCHANGED <<lockVars, dbOn, roomVars, persistVars, roomsLock, connected, username,
                 channel, snap, tx, sendPc, text, peers, frames, pings, out,
                 subscribed, rmVars>>
  /\ ClearOutput

\* the guard holds: under the registry lock, one update-rooms-list event on
\* the channel of every other room
JoinNotify(s) ==
  /\ pc[s] = "Joined"
  /\ username[s] # ""
  /\ roomsLock = "free"
  /\ SendAll(OtherRooms(channel[s]),
             SocketMessage("update-rooms-list", NoValue, "", channel[s]))
  /\ pc' = [pc EXCEPT ![s] = "Notified"]
  /\ UNCHANGED <<lockVars, dbOn, roomVars, persistVars, roomsLock, connected, username,
                 channel, snap, tx, sendPc, text, peers, frames, pings, out,
                 subscribed, rmVars>>
  /\ ClearOutput

\* the guard fails (empty username): one Error event and return
JoinGuardFail(s) ==
  /\ pc[s] = "Joined"
  /\ username[s] = ""
  /\ SinkSend(s, SocketMessage("error", "Failed to connect to room!", "", ""))
  /\ pc' = [pc EXCEPT ![s] = "Closed"]
  /\ connected' = [connected EXCEPT ![s] = FALSE]
  /\ channel' = DropLocals(s, channel, "")
  /\ tx' = DropLocals(s, tx, 0)
  /\ snap' = DropLocals(s, snap, EmptyContent)
  /\ UNCHANGED <<lockVars, dbOn, roomVars, persistVars, roomsLock, username, sendPc,
                 text, peers, frames, pings, subVars, rmVars>>
  /\ ClearOutput

\* an initial message that carries the content the room has when the
\* message is sent (not what handle_socket does)
InitialMessageLatest(s) ==
  SocketMessage("message",
                IF rooms[channel[s]] # 0 THEN content[rooms[channel[s]]]
                ELSE EmptyContent,
                "Server", channel[s])

\* the initial message: the content captured by the join block, from "Server"
InitialMessage(s) == SocketMessage("message", snap[s], "Server", channel[s])

\* the room content captured by the join block goes to the joiner; then,
\* with no await in between, tx.subscribe() (rx sees the events sent from
\* now on), tx.send of the Join event, and the two tasks are spawned
SendInitial(s) ==
  LET sub == [subscribed EXCEPT ![s] = TRUE]
      e == SocketMessage("join", NoValue, username[s], channel[s])
  IN
  /\ pc[s] = "Notified"
  /\ SinkSend(s, InitialMessage(s))
  /\ snap' = [snap EXCEPT ![s] = EmptyContent]
  /\ subscribed' = sub
  /\ rxq' = QueuesAfter(sub, rxq, {tx[s]}, e)
  /\ lagged' = LaggedAfter(sub, rxq, lagged, {tx[s]})
  /\ pc' = [pc EXCEPT ![s] = "Relaying"]
  /\ sendPc' = [sendPc EXCEPT ![s] = "idle"]
  /\ UNCHANGED <<lockVars, dbOn, roomVars, persistVars, roomsLock, connected, username,
                 channel, tx, text, peers, frames, pings, rmVars>>
  /\ ClearOutput

(***************************************************************************)
(* handle_socket: the Relaying state.  send_messages relays the inbound    *)
(* frames to the room, recv_messages forwards the room's events to the     *)
(* connection; recv_messages runs while the session is Relaying and rx is  *)
(* alive.  Positions of send_messages: none (not spawned), idle (awaiting  *)
(* a frame), publish (content updated, about to send the Message event),   *)
(* publishA (the same, of a task whose abort was requested while it was    *)
(* running: it stops at its next await), ended.                            *)
(***************************************************************************)
\* the room whose content send_messages overwrites: the room the registry
\* maps the session's channel to, if any
ContentTarget(s) == rooms[channel[s]]

\* the other sessions in the Relaying state whose room identifier is that
\* of s
RoomPeers(s) ==
  {t \in Sessions \ {s} : pc[t] = "Relaying" /\ channel[t] = channel[s]}

\* send_messages reads a text frame and, under the registry lock, does
\* rooms.get(&channel) and content_tx.send(text)
RelayTextWithin(s, t, limit) ==
  /\ pc[s] = "Relaying"
  /\ sendPc[s] = "idle"
  /\ connected[s]
  /\ frames[s] < limit
  /\ roomsLock = "free"
  /\ frames' = [frames EXCEPT ![s] = @ + 1]
  /\ text' = [text EXCEPT ![s] = t]
  /\ peers' = [peers EXCEPT ![s] = RoomPeers(s)]
  /\ content' = IF ContentTarget(s) # 0
                THEN [content EXCEPT ![ContentTarget(s)] = t]
                ELSE content
  /\ sendPc' = [sendPc EXCEPT ![s] = "publish"]
  /\ UNCHANGED <<lockVars, dbOn, rooms, nextInst, instRoom, users, persistVars, roomsLock,
                 pc, connected, username, channel, snap, tx, pings, out,
                 subVars, rmVars>>
  /\ ClearOutput

\* the same, for a connection that sends MaxFrames text frames
RelayText(s, t) == RelayTextWithin(s, t, MaxFrames)

\* send_messages reads a binary frame and calls send_pong_frame, which
\* waits for the lock of the sink when the first byte is 0x9
RelayBinary(s, b) ==
  /\ pc[s] = "Relaying"
  /\ sendPc[s] = "idle"
  /\ connected[s]
  /\ pings[s] < MaxPings
  /\ pings' = [pings EXCEPT ![s] = IF b = 9 THEN @ + 1 ELSE @]
  /\ sendPc' = [sendPc EXCEPT ![s] = IF b = 9 THEN "pong" ELSE @]
  /\ UNCHANGED <<lockVars, dbOn, roomVars, persistVars, roomsLock, pc, connected, username,
                 channel, snap, tx, text, peers, frames, out, subVars, rmVars>>
  /\ ClearOutput

\* send_messages, in send_pong_frame: the sink is locked and the reply is
\* written; the task then reads the next frame
RelayPong(s) ==
  /\ pc[s] = "Relaying"
  /\ sendPc[s] = "pong"
  /\ send_pong_frame(s, 9)
  /\ sendPc' = [sendPc EXCEPT ![s] = "idle"]
  /\ UNCHANGED <<lockVars, dbOn, roomVars, persistVars, roomsLock, pc, connected, username,
                 channel, snap, tx, text, peers, frames, pings, subVars, rmVars>>
  /\ ClearOutput

\* the channel send_messages publishes on: the sender captured at join
MessageChannel(s) == tx[s]

\* send_messages: tx.send of the Message event; an aborted task stops at
\* the await that follows
PublishMessage(s) ==
  LET stops == sendPc[s] = "publishA"
      gone == stops /\ pc[s] = "Closed"
  IN
  /\ sendPc[s] \in {"publish", "publishA"}
  /\ SendAll({MessageChannel(s)},
             SocketMessage("message", text[s], username[s], channel[s]))
  /\ sendPc' = [sendPc EXCEPT ![s] = IF stops THEN "ended" ELSE "idle"]
  /\ text' = [text EXCEPT ![s] = EmptyContent]
  /\ peers' = [peers EXCEPT ![s] = {}]
  /\ username' = IF gone THEN DropLocals(s, username, "") ELSE username
  /\ channel' = IF gone THEN DropLocals(s, channel, "") ELSE channel
  /\ tx' = IF gone THEN DropLocals(s, tx, 0) ELSE tx
  /\ UNCHANGED <<lockVars, dbOn, roomVars, persistVars, roomsLock, pc, connected, snap,
                 frames, pings, out, subscribed, rmVars>>
  /\ ClearOutput

\* recv_messages: rx.recv() yields the oldest event and it is written to the
\* connection
ForwardEvent(s) ==
  /\ pc[s] = "Relaying"
  /\ subscribed[s]
  /\ ~lagged[s]
  /\ rxq[s] # <<>>
  /\ connected[s]
  /\ out' = [out EXCEPT ![s] = Append(@, Head(rxq[s]))]
  /\ rxq' = [rxq EXCEPT ![s] = Tail(@)]
  /\ UNCHANGED <<lockVars, dbOn, roomVars, persistVars, roomsLock, pc, connected, username,
                 channel, snap, tx, sendPc, text, peers, frames, pings, subscribed,
                 lagged, rmVars>>
  /\ ClearOutput

(***************************************************************************)
(* handle_socket: tokio::select! and the teardown.  The first task to      *)
(* finish makes select abort the other, and the Leave event is sent.  No   *)
(* frame is read from or written to the connection from then on: the       *)
(* record of the connection ends here.                                     *)
(***************************************************************************)
\* the Leave event goes to the receivers of the session's channel, the
\* session's own rx being dropped
Leave(s) ==
  LET sub == [subscribed EXCEPT ![s] = FALSE]
      e == SocketMessage("leave", NoValue, username[s], channel[s])
  IN
  /\ subscribed' = sub
  /\ rxq' = QueuesAfter(sub, [rxq EXCEPT ![s] = <<>>], {tx[s]}, e)
  /\ lagged' = LaggedAfter(sub, rxq, [lagged EXCEPT ![s] = FALSE], {tx[s]})

\* receiver.next() yields None or an error: send_messages finishes first,
\* recv_messages is aborted
InboundEnd(s) ==
  /\ pc[s] = "Relaying"
  /\ sendPc[s] = "idle"
  /\ ~connected[s]
  /\ sendPc' = [sendPc EXCEPT ![s] = "ended"]
  /\ Leave(s)
  /\ pc' = [pc EXCEPT ![s] = "Cleanup"]
  /\ connected' = [connected EXCEPT ![s] = FALSE]
  /\ out' = DropLocals(s, out, <<>>)
  /\ UNCHANGED <<lockVars, dbOn, roomVars, persistVars, roomsLock, username, channel,
                 snap, tx, text, peers, frames, pings, rmVars>>
  /\ ClearOutput

\* JoinHandle::abort on send_messages: a task suspended at an await is
\* cancelled there, a running task goes on to its next await
AbortSend(p) == IF p = "publish" THEN "publishA" ELSE "ended"

\* rx.recv() yields Err(Lagged) on an overrun receiver, or the write of an
\* event to the connection fails: recv_messages finishes first,
\* send_messages is aborted
OutboundEnd(s) ==
  /\ pc[s] = "Relaying"
  /\ subscribed[s]
  /\ lagged[s] \/ (rxq[s] # <<>> /\ ~connected[s])
  /\ sendPc' = [sendPc EXCEPT ![s] = AbortSend(@)]
  /\ Leave(s)
  /\ pc' = [pc EXCEPT ![s] = "Cleanup"]
  /\ connected' = [connected EXCEPT ![s] = FALSE]
  /\ out' = DropLocals(s, out, <<>>)
  /\ UNCHANGED <<lockVars, dbOn, roomVars, persistVars, roomsLock, username, channel,
                 snap, tx, text, peers, frames, pings, rmVars>>
  /\ ClearOutput

\* under the registry lock: rooms.get_mut(&channel) and users.remove; then
\* handle_socket returns
RemoveMember(s) ==
  LET gone == sendPc[s] # "publishA"
  IN
  /\ pc[s] = "Cleanup"
  /\ roomsLock = "free"
  /\ users' = IF rooms[channel[s]] # 0
              THEN [users EXCEPT ![rooms[channel[s]]] = RemoveUser(@, username[s])]
              ELSE users
  /\ pc' = [pc EXCEPT ![s] = "Closed"]
  /\ username' = IF gone THEN DropLocals(s, username, "") ELSE username
  /\ channel' = IF gone THEN DropLocals(s, channel, "") ELSE channel
  /\ tx' = IF gone THEN DropLocals(s, tx, 0) ELSE tx
  /\ UNCHANGED <<lockVars, dbOn, rooms, nextInst, instRoom, content, persistVars,
                 roomsLock, connected, snap, sendPc, text, peers, frames, pings, out,
                 subVars, rmVars>>
  /\ ClearOutput

(***************************************************************************)
(* remove_room (DELETE /api/rooms/:room_id).  Requests are served one at a *)
(* time here: a second request would wait for the registry lock, which the *)
(* first holds from its first check to its return.                         *)
(***************************************************************************)
\* room ids a request may name: the rooms of the model, and with them one
\* that never exists
RemoveIds == RoomIds
RemoveIdsAll == RoomIds \cup {"nonexistent"}

\* a lookup that finds every room identifier of the model (not what
\* contains_key does)
ContainsKeyAny(rs, id) == id \in RoomIds

\* rooms.contains_key
ContainsKey(rs, id) == id \in RoomIds /\ rs[id] # 0

\* a remove_room without its first check
IsDefaultRoomNever(id) == FALSE

\* a first check that compares with another spelling of the name
IsDefaultRoomCase(id) == id = "General"

\* a default-room check that comes after the check on the number of rooms
IsDefaultRoomLate(id) == id = "general" /\ Cardinality(RoomKeys(rooms)) > 1

\* the first check of remove_room: room.0 == "general"
IsDefaultRoom(id) == id = "general"

\* the check on the number of rooms: rooms.len() == 1
IsLastRoom(rs) == Cardinality(RoomKeys(rs)) = 1

\* a check on the members that lets two users pass
TooManyUsersLax(set) == Cardinality(set) > 2

\* the check on the members: users.len() > 1
TooManyUsers(set) == Cardinality(set) > 1

\* a removal that notifies no room
RemoveNotifyNone(rs, id) == UNCHANGED <<rxq, lagged>>

\* the follow-up of the removal: one update-rooms-list event on the channel
\* of every room left in the registry
RemoveNotify(rs, id) ==
  SendAll({rs[q] : q \in RoomKeys(rs)},
          SocketMessage("update-rooms-list", NoValue, "", id))

\* the checks of remove_room and rooms.remove; with a database the handler
\* goes on to the DELETE, holding the registry lock
RemoveRoom(id) ==
  /\ rmPc = "idle"
  /\ IF IsDefaultRoom(id)
     THEN /\ response' = ErrResponse(id, "Cannot remove the default room.")
          /\ UNCHANGED <<rooms, rmVars, roomsLock, subVars>>
     ELSE /\ roomsLock = "free"
          /\ IF ~ContainsKey(rooms, id)
             THEN /\ response' = OkResponse(id, "Room already removed.")
                  /\ UNCHANGED <<rooms, rmVars, roomsLock, subVars>>
             ELSE IF IsLastRoom(rooms)
             THEN /\ response' = ErrResponse(id, "Cannot remove the last room.")
                  /\ UNCHANGED <<rooms, rmVars, roomsLock, subVars>>
             ELSE IF TooManyUsers(users[rooms[id]])
             THEN /\ response' = ErrResponse(id, "Room has more than 1 user.")
                  /\ UNCHANGED <<rooms, rmVars, roomsLock, subVars>>
             ELSE /\ rooms' = [rooms EXCEPT ![id] = 0]
                  /\ IF dbOn
                     THEN /\ rmPc' = "deleting"
                          /\ rmId' = id
                          /\ roomsLock' = "remove_room"
                          /\ response' = NoResponse
                          /\ UNCHANGED <<removed, subVars>>
                     ELSE /\ RemoveNotify(rooms', id)
                          /\ response' = OkResponse(id, "Room removed.")
                          /\ removed' = removed \cup {id}
                          /\ UNCHANGED <<rmPc, rmId, roomsLock, subscribed>>
  /\ listing' = NoListing
  /\ UNCHANGED <<lockVars, dbOn, nextInst, instRoom, users, content, persistVars, sessVars>>

\* DELETE FROM rooms WHERE room_id = $1 succeeds: the notification and the
\* success response follow
RemoveDeleteOk ==
  /\ rmPc = "deleting"
  /\ db' = [db EXCEPT ![rmId] = NoRow]
  /\ RemoveNotify(rooms, rmId)
  /\ response' = OkResponse(rmId, "Room removed.")
  /\ removed' = removed \cup {rmId}
  /\ rmPc' = "idle"
  /\ rmId' = ""
  /\ roomsLock' = "free"
  /\ listing' = NoListing
  /\ UNCHANGED <<lockVars, dbOn, roomVars, pPc, pLast, sessVars, subscribed>>

\* the DELETE fails: the handler returns the error
RemoveDeleteErr ==
  /\ rmPc = "deleting"
  /\ response' = ErrResponse(rmId, "Failed to remove room from database.")
  /\ removed' = removed
  /\ rmPc' = "idle"
  /\ rmId' = ""
  /\ roomsLock' = "free"
  /\ listing' = NoListing
  /\ UNCHANGED <<lockVars, dbOn, roomVars, persistVars, sessVars, subVars>>

(***************************************************************************)
(* get_rooms (GET /api/rooms).                                             *)
(***************************************************************************)
\* users.iter().cloned().collect(): the Vec of a room's users
CollectUsers(set) == SetToBag(set)

\* a listing that leaves out the rooms without users
RoomListOccupied(rs, us) ==
  SetToBag({[id |-> r, users |-> CollectUsers(us[rs[r]])] :
              r \in {q \in RoomKeys(rs) : us[rs[q]] # {}}})

\* the Vec<Room> built under the registry lock, as a bag of Room values
RoomList(rs, us) ==
  SetToBag({[id |-> r, users |-> CollectUsers(us[rs[r]])] : r \in RoomKeys(rs)})

get_rooms ==
  /\ roomsLock = "free"
  /\ listing' = RoomList(rooms, users)
  /\ response' = NoResponse
  /\ UNCHANGED <<lockVars, dbOn, roomVars, persistVars, roomsLock, sessVars, subVars, rmVars>>

(***************************************************************************)
(* The persister task of a room (RoomState::new, with a database).         *)
(***************************************************************************)
\* the task starts: last_content = content_rx.borrow().clone()
PersisterStart(c) ==
  /\ pPc[c] = "start"
  /\ pLast' = [pLast EXCEPT ![c] = content[c]]
  /\ pPc' = [pPc EXCEPT ![c] = "idle"]
  /\ UNCHANGED <<lockVars, dbOn, db, roomVars, roomsLock, sessVars, subVars, rmVars>>
  /\ ClearOutput

\* a tick of the interval finds the content changed: last_content takes the
\* new value and the write begins
PersisterTick(c) ==
  /\ pPc[c] = "idle"
  /\ content[c] # pLast[c]
  /\ pLast' = [pLast EXCEPT ![c] = content[c]]
  /\ pPc' = [pPc EXCEPT ![c] = "writing"]
  /\ UNCHANGED <<lockVars, dbOn, db, roomVars, roomsLock, sessVars, subVars, rmVars>>
  /\ ClearOutput

\* update_room_content: INSERT OR REPLACE INTO rooms (room_id, content)
update_room_content(table, room_id, new_content) ==
  [table EXCEPT ![room_id] = new_content]

\* the write succeeds
PersisterWriteOk(c) ==
  /\ pPc[c] = "writing"
  /\ db' = update_room_content(db, instRoom[c], pLast[c])
  /\ pPc' = [pPc EXCEPT ![c] = "idle"]
  /\ UNCHANGED <<lockVars, dbOn, pLast, roomVars, roomsLock, sessVars, subVars, rmVars>>
  /\ ClearOutput

\* the write fails: the error is logged
PersisterWriteErr(c) ==
  /\ pPc[c] = "writing"
  /\ pPc' = [pPc EXCEPT ![c] = "idle"]
  /\ UNCHANGED <<lockVars, dbOn, db, pLast, roomVars, roomsLock, sessVars, subVars, rmVars>>
  /\ ClearOutput

(***************************************************************************)
(* The system.                                                             *)
(***************************************************************************)
\* the steps of the connection s, binary frames apart
SessionStep(s) ==
  \/ ConnDrop(s)
  \/ ConnectingEnd(s)
  \/ \E f \in JoinFrames(s) : JoinMalformed(s, f)
  \/ \E f \in JoinFrames(s) : JoinBlock(s, f)
  \/ JoinNotify(s)
  \/ JoinGuardFail(s)
  \/ SendInitial(s)
  \/ \E t \in TextsOf(s) : RelayText(s, t)
  \/ PublishMessage(s)
  \/ ForwardEvent(s)
  \/ InboundEnd(s)
  \/ OutboundEnd(s)
  \/ RemoveMember(s)

\* the server without a database (AppState.db = None, as the test server of
\* setup_test_server): connections, remove_room and get_rooms
Init == InitWith(FALSE)

Next ==
  \/ \E s \in Sessions : SessionStep(s)
  \/ \E id \in RemoveIds : RemoveRoom(id)
  \/ get_rooms

Spec == Init /\ [][Next]_vars

\* the server with a database (as the test server of
\* setup_test_server_with_db): one connection, remove_room with its DELETE,
\* and the persister tasks
InitDb == InitWith(TRUE)

NextDb ==
  \/ SessionStep(1)
  \/ \E id \in RemoveIds : RemoveRoom(id)
  \/ RemoveDeleteOk
  \/ RemoveDeleteErr
  \/ \E c \in Insts : PersisterStart(c)
  \/ \E c \in Insts : PersisterTick(c)
  \/ \E c \in Insts : PersisterWriteOk(c)
  \/ \E c \in Insts : PersisterWriteErr(c)

SpecDb == InitDb /\ [][NextDb]_vars

\* every persister task that was spawned has run its first lines
PersistersStarted == \A c \in Insts : pPc[c] # "start"

\* the steps of a connection s that edits the content of its room: up to
\* MaxEdits text frames out of EditTexts, read once the persister tasks
\* have started (a spawned task is polled at once, the first text frame of
\* a joiner comes a round trip later)
EditStep(s) ==
  \/ ConnDrop(s)
  \/ ConnectingEnd(s)
  \/ \E f \in JoinFrames(s) : JoinMalformed(s, f)
  \/ \E f \in JoinFrames(s) : JoinBlock(s, f)
  \/ JoinNotify(s)
  \/ JoinGuardFail(s)
  \/ SendInitial(s)
  \/ PersistersStarted /\ \E t \in EditTexts : RelayTextWithin(s, t, MaxEdits)
  \/ PublishMessage(s)
  \/ ForwardEvent(s)
  \/ InboundEnd(s)
  \/ OutboundEnd(s)
  \/ RemoveMember(s)

\* the server with a database whose writes succeed: one connection that
\* edits, remove_room with its DELETE, and the persister tasks
NextPersist ==
  \/ EditStep(1)
  \/ \E id \in RemoveIds : RemoveRoom(id)
  \/ RemoveDeleteOk
  \/ RemoveDeleteErr
  \/ \E c \in Insts : PersisterStart(c)
  \/ \E c \in Insts : PersisterTick(c)
  \/ \E c \in Insts : PersisterWriteOk(c)

SpecPersist == InitDb /\ [][NextPersist]_vars

\* the server without a database, its requests left out, with the first
\* connection also sending binary frames
ProbeStep(s) ==
  \/ SessionStep(s)
  \/ \E b \in BinTags : ConnectingBinary(s, b)
  \/ \E b \in BinTags : RelayBinary(s, b)
  \/ RelayPong(s)

NextProbe == ProbeStep(1) \/ SessionStep(2)

SpecProbe == Init /\ [][NextProbe]_vars

\* the server with a database, its connections joining and leaving rooms
\* without sending text (no content changes, so the persister tasks have
\* nothing to write and are left out), and remove_room with its DELETE
JoinLeaveStep(s) ==
  \/ ConnDrop(s)
  \/ ConnectingEnd(s)
  \/ \E f \in JoinFrames(s) : JoinMalformed(s, f)
  \/ \E f \in JoinFrames(s) : JoinBlock(s, f)
  \/ JoinNotify(s)
  \/ JoinGuardFail(s)
  \/ SendInitial(s)
  \/ ForwardEvent(s)
  \/ InboundEnd(s)
  \/ OutboundEnd(s)
  \/ RemoveMember(s)

NextRemove ==
  \/ \E s \in Sessions : JoinLeaveStep(s)
  \/ \E id \in RemoveIdsAll : RemoveRoom(id)
  \/ RemoveDeleteOk
  \/ RemoveDeleteErr

SpecRemove == InitDb /\ [][NextRemove]_vars

\* the scheduling of the tasks: a task that can run is run by the runtime,
\* the DELETE of remove_room comes to an end, and the registry mutex is
\* handed to its waiters in turn, so the steps of a session that wait for
\* nothing but the processor or the mutex are taken
Fairness ==
  /\ WF_vars(RemoveDeleteOk \/ RemoveDeleteErr)
  /\ \A s \in Sessions :
       /\ WF_vars(InboundEnd(s))
       /\ WF_vars(OutboundEnd(s))
       /\ SF_vars(RemoveMember(s))

\* the server with a database, its connections joining and leaving rooms,
\* and remove_room of the rooms of the model, under that scheduling
NextLive ==
  \/ \E s \in Sessions : JoinLeaveStep(s)
  \/ \E id \in RemoveIds : RemoveRoom(id)
  \/ RemoveDeleteOk
  \/ RemoveDeleteErr

SpecLive == InitDb /\ [][NextLive]_vars /\ Fairness

(***************************************************************************)
(* The locks.  Each operation of the server is here the sequence of its    *)
(* lock().await calls, of the ends of the scopes of the guards they return *)
(* and of the I/O it awaits in between, in the order of the source; what   *)
(* the operation does to the rooms is left to the specifications above.    *)
(* A task runs one operation at a time, for any room, any number of times. *)
(***************************************************************************)
\* the instructions of an operation
LockOf(l, r) == [k |-> "lock", l |-> l, r |-> r]
UnlockOf(l, r) == [k |-> "unlock", l |-> l, r |-> r]
AwaitIo(what) == [k |-> "io", l |-> what, r |-> ""]

\* a teardown that locks the membership set before it locks the registry
TeardownProgramUsersFirst(r) ==
  <<LockOf("users", r), LockOf("rooms", ""),
    UnlockOf("users", r), UnlockOf("rooms", "")>>

\* the end of handle_socket: state.rooms.lock(), room.users.lock() for the
\* remove (a temporary, dropped with the statement), drop(rooms)
TeardownProgram(r) ==
  <<LockOf("rooms", ""), LockOf("users", r),
    UnlockOf("users", r), UnlockOf("rooms", "")>>

\* the join of handle_socket: the join block (registry, then the users of
\* the room for the insert, both released), the notification of the other
\* rooms under the registry lock, then the initial message written under
\* the sender lock
JoinProgram(r) ==
  <<LockOf("rooms", ""), LockOf("users", r),
    UnlockOf("users", r), UnlockOf("rooms", ""),
    LockOf("rooms", ""), UnlockOf("rooms", ""),
    LockOf("sender", ""), AwaitIo("send"), UnlockOf("sender", "")>>

\* send_messages, for a text frame: the registry lock around the content
\* update; tx.send takes no lock of the program
RelayProgram ==
  <<LockOf("rooms", ""), UnlockOf("rooms", "")>>

\* get_rooms: the registry lock around the loop, the users of one room
\* after the other inside it
ListProgram ==
  <<LockOf("rooms", ""),
    LockOf("users", DefaultRoom), UnlockOf("users", DefaultRoom),
    LockOf("users", "r1"), UnlockOf("users", "r1"),
    UnlockOf("rooms", "")>>

\* remove_room, on its longest path: the registry lock, the users of the
\* room for the len() test (a temporary), the DELETE, drop(rooms)
RemoveProgram(r) ==
  <<LockOf("rooms", ""), LockOf("users", r), UnlockOf("users", r),
    AwaitIo("delete"), UnlockOf("rooms", "")>>

\* a frame written to the connection (an Error event, the reply to a
\* probe, an event forwarded by recv_messages): sender.lock().await.send()
ReplyProgram ==
  <<LockOf("sender", ""), AwaitIo("send"), UnlockOf("sender", "")>>

\* the operations a task runs: the last task serves the HTTP requests, the
\* others are tasks of the connections
TaskOps(t) ==
  IF t = NTask THEN {"list", "remove"}
  ELSE {"join", "relay", "teardown", "reply"}

LockProgram(op, r) ==
  CASE op = "join" -> JoinProgram(r)
    [] op = "relay" -> RelayProgram
    [] op = "teardown" -> TeardownProgram(r)
    [] op = "list" -> ListProgram
    [] op = "remove" -> RemoveProgram(r)
    [] op = "reply" -> ReplyProgram

\* the rooms an operation can be about: remove_room returns before any
\* lock for "general", and only three operations look at one room
LockRooms(op) ==
  IF op = "remove" THEN RoomIds \ {DefaultRoom}
  ELSE IF op \in {"join", "teardown"} THEN RoomIds
  ELSE {DefaultRoom}

\* the connection whose sender a task locks: the first two tasks share a
\* connection (as its handle_socket, recv_messages and send_messages do)
ConnOf(t) == IF t <= 2 THEN 1 ELSE 2

Running(t) == tOp[t] # "none"
AtEnd(t) == tIdx[t] > Len(LockProgram(tOp[t], tRoom[t]))
Instr(t) == LockProgram(tOp[t], tRoom[t])[tIdx[t]]

\* the holder of the mutex an instruction of t names
HolderOf(t, i) ==
  CASE i.l = "rooms" -> mRooms
    [] i.l = "users" -> mUsers[i.r]
    [] i.l = "sender" -> mSender[ConnOf(t)]

\* the mutexes with the one an instruction of t names given to h
SetHolder(t, i, h) ==
  /\ mRooms' = IF i.l = "rooms" THEN h ELSE mRooms
  /\ mUsers' = IF i.l = "users" THEN [mUsers EXCEPT ![i.r] = h] ELSE mUsers
  /\ mSender' = IF i.l = "sender" THEN [mSender EXCEPT ![ConnOf(t)] = h] ELSE mSender

progVars == <<dbOn, db, roomVars, pPc, pLast, roomsLock, sessVars, subVars,
              rmVars, response, listing>>

\* a task starts an operation
LockBegin(t, op, r) ==
  /\ ~Running(t)
  /\ tOp' = [tOp EXCEPT ![t] = op]
  /\ tIdx' = [tIdx EXCEPT ![t] = 1]
  /\ tRoom' = [tRoom EXCEPT ![t] = r]
  /\ UNCHANGED <<mRooms, mUsers, mSender, progVars>>

\* Mutex::lock().await is granted: the mutex is free
LockAcquire(t) ==
  /\ Running(t) /\ ~AtEnd(t)
  /\ Instr(t).k = "lock"
  /\ HolderOf(t, Instr(t)) = 0
  /\ SetHolder(t, Instr(t), t)
  /\ tIdx' = [tIdx EXCEPT ![t] = @ + 1]
  /\ UNCHANGED <<tOp, tRoom, progVars>>

\* the guard goes out of scope or is dropped
LockRelease(t) ==
  /\ Running(t) /\ ~AtEnd(t)
  /\ Instr(t).k = "unlock"
  /\ HolderOf(t, Instr(t)) = t
  /\ SetHolder(t, Instr(t), 0)
  /\ tIdx' = [tIdx EXCEPT ![t] = @ + 1]
  /\ UNCHANGED <<tOp, tRoom, progVars>>

\* the awaited I/O (a socket write, the DELETE) comes to an end
LockIo(t) ==
  /\ Running(t) /\ ~AtEnd(t)
  /\ Instr(t).k = "io"
  /\ tIdx' = [tIdx EXCEPT ![t] = @ + 1]
  /\ UNCHANGED <<mRooms, mUsers, mSender, tOp, tRoom, progVars>>

\* the operation completes
LockEnd(t) ==
  /\ Running(t) /\ AtEnd(t)
  /\ tOp' = [tOp EXCEPT ![t] = "none"]
  /\ tIdx' = [tIdx EXCEPT ![t] = 1]
  /\ UNCHANGED <<mRooms, mUsers, mSender, tRoom, progVars>>

NextLocks ==
  \/ \E t \in LockTasks : \E op \in TaskOps(t) : \E r \in LockRooms(op) : LockBegin(t, op, r)
  \/ \E t \in LockTasks : LockAcquire(t)
  \/ \E t \in LockTasks : LockRelease(t)
  \/ \E t \in LockTasks : LockIo(t)
  \/ \E t \in LockTasks : LockEnd(t)

\* tokio's Mutex hands the lock to its waiters in the order of their
\* requests, so a task that waits for a mutex that is freed again and again
\* gets it; a task that can run is run, and the awaited I/O ends
LockFairness ==
  \A t \in LockTasks :
    /\ SF_vars(LockAcquire(t))
    /\ WF_vars(LockRelease(t) \/ LockIo(t) \/ LockEnd(t))

SpecLocks == Init /\ [][NextLocks]_vars /\ LockFairness

(***************************************************************************)
(* Properties.                                                             *)
(***************************************************************************)
\* the events of a room: joins, leaves and messages
RoomEvents == {"join", "leave", "message"}

Range(q) == {q[i] : i \in DOMAIN q}

\* the text frames of a sequence of frames
TextFrames(q) == SelectSeq(q, LAMBDA e : e.type # "binary")

\* the classes of the answers of remove_room
Success(resp) == resp.status = StatusOk
Forbidden(resp) ==
  resp.status = BadRequest /\ resp.message = "Cannot remove the default room."
Conflict(resp) ==
  /\ resp.status = BadRequest
  /\ resp.message \in {"Cannot remove the last room.", "Room has more than 1 user."}

\* the step is remove_room(id) running its checks: it answers, or it goes on
\* to the DELETE
RemoveCall(id) ==
  /\ rmPc = "idle"
  /\ response'.id = id \/ (rmPc' = "deleting" /\ rmId' = id)

\* the step ends a remove_room that was waiting for its DELETE
RemoveReturn == rmPc = "deleting" /\ rmPc' = "idle"

\* the step is the join block of s
JoinStep(s) == pc[s] = "Connecting" /\ pc'[s] = "Joined"

\* the step is the send of the Message event of the frame s has read
PublishStep(s) ==
  sendPc[s] \in {"publish", "publishA"} /\ sendPc'[s] \notin {"publish", "publishA"}

\* C1: when a session in the Relaying state has read a text frame, every
\* other session that was Relaying with the same room identifier at that
\* moment, that is still Relaying and whose receiver is not overrun, has the
\* Message event with that text and the sender's username appended to its
\* receiver by the send of the event.
C1_SameRoomDelivery ==
  [][\A s \in Sessions : PublishStep(s) =>
       \A t \in peers[s] :
         (/\ pc[t] = "Relaying" /\ pc'[t] = "Relaying"
          /\ channel[t] = channel[s]
          /\ ~lagged[t] /\ Len(rxq[t]) < BufCap) =>
           /\ Len(rxq'[t]) = Len(rxq[t]) + 1
           /\ rxq'[t][Len(rxq'[t])] =
                SocketMessage("message", text[s], username[s], channel[s])]_vars

\* C2: every join, leave or message event that waits in the receiver of a
\* session or was written to its connection was published for the room the
\* session joined: no event of one room reaches a session of another room.
C2_RoomIsolation ==
  \A s \in Sessions : \A e \in Range(rxq[s]) \cup Range(out[s]) :
    e.type \in RoomEvents => e.room = channel[s]

\* two sessions relay in different rooms, one has got back its own message
\* and the other has been sent events too
C2_Witness ==
  \E s, t \in Sessions :
    /\ pc[s] = "Relaying" /\ pc[t] = "Relaying"
    /\ channel[s] # channel[t]
    /\ \E e \in Range(out[s]) : e.type = "message" /\ e.username = username[s]
    /\ \E e \in Range(out[t]) : e.type = "join"

\* C3: the join block captures the content the target room has when the
\* user is added (empty for a room this join creates); nothing is sent to
\* the connection before that content is, the first text frame sent to the
\* joiner is the Message from "Server" with the captured content, and the
\* receiver of the joiner starts with the joiner's own Join event, so every
\* forwarded event comes after the initial message.
C3_InitialContent ==
  [][\A s \in Sessions :
       /\ JoinStep(s) =>
            /\ snap'[s] = content'[rooms'[channel'[s]]]
            /\ channel'[s] \notin RoomKeys(rooms) => snap'[s] = EmptyContent
            /\ TextFrames(out'[s]) = <<>>
       /\ (pc[s] \in {"Joined", "Notified"} /\ pc'[s] \in {"Joined", "Notified"}) =>
            /\ snap'[s] = snap[s]
            /\ TextFrames(out'[s]) = <<>>
       /\ (pc[s] = "Notified" /\ pc'[s] = "Relaying") =>
            /\ username[s] # ""
            /\ connected[s] =>
                 TextFrames(out'[s]) =
                   <<SocketMessage("message", snap[s], "Server", channel[s])>>
            /\ rxq'[s] = <<SocketMessage("join", NoValue, username[s], channel[s])>>
       /\ (pc[s] = "Relaying" /\ pc'[s] = "Relaying" /\ TextFrames(out'[s]) # <<>>) =>
            /\ TextFrames(out[s]) # <<>>
            /\ Head(TextFrames(out'[s])) = Head(TextFrames(out[s]))
            /\ Head(TextFrames(out'[s])).username = "Server"]_vars

\* a session that joined a room with content has been sent that content
\* and, after it, a forwarded event
C3_Witness ==
  \E s \in Sessions :
    /\ pc[s] = "Relaying"
    /\ Len(out[s]) >= 2
    /\ out[s][1].type = "message" /\ out[s][1].username = "Server"
    /\ out[s][1].value # EmptyContent
    /\ out[s][2].type = "join"

\* C4: right after the join block of a session for room R and username U,
\* U is in the membership set of R and the room listing has one entry for
\* R, in which U appears once, whatever joined R before.
C4_JoinMembership ==
  [][\A s \in Sessions : JoinStep(s) =>
       LET r == channel'[s]
           u == username'[s]
           L == RoomList(rooms', users')
       IN
       /\ r \in RoomKeys(rooms')
       /\ u \in users'[rooms'[r]]
       /\ \E room \in BagToSet(L) : room.id = r
       /\ \A room \in BagToSet(L) :
            room.id = r => CopiesIn(room, L) = 1 /\ CopiesIn(u, room.users) = 1]_vars

\* a session has just joined a room in which another session relays under
\* the same username
C4_Witness ==
  \E s, t \in Sessions :
    /\ s # t
    /\ pc[s] = "Joined" /\ pc[t] = "Relaying"
    /\ username[s] # "" /\ username[s] = username[t]
    /\ channel[s] = channel[t]
    /\ rooms[channel[s]] # 0
    /\ users[rooms[channel[s]]] = {username[s]}

\* the step is the teardown of s: the end of the Relaying state
TeardownStep(s) == pc[s] = "Relaying" /\ pc'[s] = "Cleanup"

\* the Leave event of s
LeaveEvent(s) == SocketMessage("leave", NoValue, username[s], channel[s])

\* C5: a session in the Relaying state whose peer is gone (its inbound
\* stream ends, its writes fail) reaches Closed.  On the way it leaves the
\* Relaying state once, with one Leave event carrying its username sent on
\* its channel and with no other step sending a Leave event; then, once, it
\* takes its username out of the membership set of the room the registry
\* has under its room identifier, and it closes all the same when the
\* registry has no such room.
C5_Teardown ==
  /\ \A s \in Sessions : (pc[s] = "Relaying" /\ ~connected[s]) ~> (pc[s] = "Closed")
  /\ [][\A s \in Sessions :
          /\ TeardownStep(s) =>
               \A t \in Sessions \ {s} :
                 IF subscribed[t] /\ tx[t] = tx[s]
                 THEN rxq'[t] = Enqueue(rxq[t], LeaveEvent(s))
                 ELSE rxq'[t] = rxq[t]
          /\ (/\ rxq'[s] # <<>> /\ rxq'[s] # rxq[s]
              /\ rxq[s] # <<>> => rxq'[s] # Tail(rxq[s])
              /\ rxq'[s][Len(rxq'[s])].type = "leave") =>
               \E t \in Sessions \ {s} :
                 TeardownStep(t) /\ rxq'[s][Len(rxq'[s])] = LeaveEvent(t)
          /\ pc[s] \in {"Cleanup", "Closed"} => pc'[s] \in {"Cleanup", "Closed"}
          /\ pc[s] = "Closed" => pc'[s] = "Closed"
          /\ (pc[s] = "Cleanup" /\ pc'[s] = "Closed") =>
               users' = IF channel[s] \in RoomKeys(rooms)
                        THEN [users EXCEPT ![rooms[channel[s]]] = @ \ {username[s]}]
                        ELSE users]_vars

\* a session has closed after relaying, the other session has been sent its
\* Leave event, and the registry no longer has its room
C5_Witness ==
  \E s, t \in Sessions :
    /\ pc[s] = "Closed" /\ sendPc[s] = "ended"
    /\ pc[t] = "Relaying"
    /\ \E e \in Range(out[t]) : e.type = "leave"
    /\ RoomKeys(rooms) = {DefaultRoom}
    /\ channel[t] = "r1"

\* C6: remove_room("general") answers Forbidden and changes neither the
\* registry, nor a membership set, nor a content value, nor the persisted
\* rows, and publishes no event.
C6_DefaultRoomForbidden ==
  [][RemoveCall(DefaultRoom) =>
       /\ Forbidden(response')
       /\ UNCHANGED <<rooms, users, content, db, rxq, lagged, rmPc>>]_vars

\* removing the default room was refused although it has no member and is
\* not the only room
C6_Witness ==
  /\ response.id = DefaultRoom
  /\ Forbidden(response)
  /\ users[rooms[DefaultRoom]] = {}
  /\ rooms["r1"] # 0
  /\ db["r1"] # NoRow

\* C7: the registry always has the room "general".
C7_GeneralAlwaysPresent == DefaultRoom \in RoomKeys(rooms)

\* a room has been removed while a session relays, and "general" is what is
\* left
C7_Witness ==
  /\ Success(response) /\ response.message = "Room removed."
  /\ RoomKeys(rooms) = {DefaultRoom}
  /\ \E s \in Sessions : pc[s] = "Relaying"

C9_RemoveAbsentNoOp ==
  [][\A id \in RemoveIdsAll \ {DefaultRoom} :
       (RemoveCall(id) /\ id \notin RoomKeys(rooms)) =>
         /\ response' = OkResponse(id, "Room already removed.")
         /\ id \notin RoomKeys(rooms')
         /\ UNCHANGED <<rooms, users, content, db, rxq, lagged, rmPc>>]_vars

\* the removal of an absent room has succeeded while the registry holds one
\* room, in which a session relays
C9_Witness ==
  /\ response.id \in RemoveIdsAll \ RoomKeys(rooms)
  /\ response = OkResponse(response.id, "Room already removed.")
  /\ Cardinality(RoomKeys(rooms)) = 1
  /\ \E s \in Sessions : pc[s] = "Relaying" /\ subscribed[s]

\* C10 (amended): when the registry holds exactly one room, remove_room of
\* that room fails and leaves the registry as it is; the room is the
\* default room and the answer is Forbidden.
C10_SoleRoomForbidden ==
  [][\A id \in RoomIds : (RemoveCall(id) /\ RoomKeys(rooms) = {id}) =>
       /\ id = DefaultRoom
       /\ Forbidden(response')
       /\ rooms' = rooms]_vars

\* C10 as stated: the removal of the sole remaining room fails with Conflict
C10_SoleRoomConflict ==
  [][\A id \in RoomIds : (RemoveCall(id) /\ RoomKeys(rooms) = {id}) =>
       /\ Conflict(response')
       /\ rooms' = rooms]_vars

\* the removal of the sole remaining room, which is empty, was refused
C10_Witness ==
  /\ response.status = BadRequest
  /\ RoomKeys(rooms) = {response.id}
  /\ users[rooms[response.id]] = {}
  /\ \E s \in Sessions : pc[s] = "Closed"

\* the update-rooms-list event that follows the removal of room id
RemovalEvent(id) == SocketMessage("update-rooms-list", NoValue, "", id)

\* the step ends a remove_room with the answer that the room was removed
RemovedStep == Success(response') /\ response'.message = "Room removed."

\* C11: a remove_room that answers that it removed the room leaves the room
\* out of the registry and, with a database, its row out of the table; the
\* step adds one update-rooms-list event to every receiver of the channel
\* of a room that is still in the registry, and nothing to the receivers
\* of any other channel, that of the removed room included.
C11_RemovalEffects ==
  [][RemovedStep =>
       LET id == response'.id
           left == {rooms'[q] : q \in RoomKeys(rooms')}
       IN
       /\ id \notin RoomKeys(rooms')
       /\ dbOn => db'[id] = NoRow
       /\ \A t \in Sessions :
            IF subscribed[t] /\ tx[t] \in left
            THEN rxq'[t] = Enqueue(rxq[t], RemovalEvent(id))
            ELSE rxq'[t] = rxq[t]]_vars

\* room r1 has just been removed with a session in it, which got nothing,
\* while the session in general has the event of the removal
C11_Witness ==
  \E s, t \in Sessions :
    /\ response = OkResponse("r1", "Room removed.")
    /\ pc[s] = "Relaying" /\ channel[s] = DefaultRoom
    /\ pc[t] = "Relaying" /\ channel[t] = "r1"
    /\ rooms["r1"] = 0
    /\ db["r1"] = NoRow
    /\ rxq[s] # <<>> /\ rxq[s][Len(rxq[s])] = RemovalEvent("r1")
    /\ RemovalEvent("r1") \notin Range(rxq[t]) \cup Range(out[t])

\* C12: with a database, once remove_room has answered that it removed a
\* room, and as long as no join creates the room again, the table has no
\* row for the room.
C12_RowStaysDeleted == \A id \in removed : db[id] = NoRow

\* the session s has sent its MaxEdits text frames to a room that has been
\* in the registry all along, and the persister of the room has nothing
\* left to write: it is idle and the content is its last_content
EditsSettled(s) ==
  /\ pc[s] = "Relaying"
  /\ frames[s] = MaxEdits
  /\ sendPc[s] = "idle"
  /\ rooms[channel[s]] = tx[s]
  /\ pPc[tx[s]] = "idle"
  /\ pLast[tx[s]] = content[tx[s]]

\* C13: with a database whose writes succeed, once two contents have been
\* sent to a room that stays in the registry and the persister of the room
\* has come to rest, the row of the room holds the content sent last.
C13_LatestPersisted ==
  \A s \in Sessions : EditsSettled(s) => db[channel[s]] = content[tx[s]]

\* the step ends a write of the persister of c that failed: the value it
\* was writing is not in the table
WriteFailedStep(c) ==
  /\ pPc[c] = "writing" /\ pPc'[c] = "idle"
  /\ db'[instRoom[c]] # pLast[c]

\* C14: when a write of the persister of a room fails, the content stays
\* dirty: it differs from last_content, so that the next tick writes again.
C14_RetryAfterFailure ==
  [][\A c \in Insts : WriteFailedStep(c) => content'[c] # pLast'[c]]_vars

\* the Error events of a sequence of frames
ErrorFrames(q) == SelectSeq(q, LAMBDA e : e.type = "error")

\* the step is the answer of s to a join frame that does not parse: the
\* session ends in the Connecting state with its peer there
MalformedStep(s) == pc[s] = "Connecting" /\ pc'[s] = "Closed" /\ connected[s]

\* C15: the answer to a first text frame that does not parse is one Error
\* event written to the connection, the only one it ever gets, and the
\* session is Closed for good without having been Relaying; the step
\* creates no room, changes no membership set and no content, and adds no
\* event to any receiver.
C15_MalformedJoin ==
  [][\A s \in Sessions :
       /\ MalformedStep(s) =>
            /\ out'[s] = Append(out[s], SocketMessage("error", "Invalid JSON", "", ""))
            /\ Len(ErrorFrames(out'[s])) = 1
            /\ UNCHANGED <<rooms, nextInst, users, content, db, rxq, lagged, subscribed>>
       /\ (pc[s] = "Closed" /\ sendPc[s] = "none") =>
            /\ pc'[s] = "Closed" /\ sendPc'[s] = "none"
            /\ out'[s] = out[s]
            /\ ~subscribed'[s]]_vars

\* a session was closed with the Error event of a malformed join, while
\* the other session relays
C15_Witness ==
  \E s, t \in Sessions :
    /\ pc[s] = "Closed"
    /\ out[s] = <<SocketMessage("error", "Invalid JSON", "", "")>>
    /\ pc[t] = "Relaying" /\ subscribed[t]

\* the step is the join block of s run for a request with an empty username
EmptyNameJoined(s) == pc[s] = "Joined" /\ username[s] = ""

\* Join and Leave events published in the name of the empty username
AnonymousEvents(q) ==
  {e \in Range(q) : e.type \in {"join", "leave"} /\ e.username = ""}

\* C16: a join request that parses with an empty username is answered with
\* the Error event "Failed to connect to room!" (written when the peer is
\* still there) and the session is Closed by that step, never Relaying and
\* never subscribed; the step adds no event to any receiver, and no Join or
\* Leave event of the empty username is ever queued or delivered.
C16_EmptyUsernameGuard ==
  [][\A s \in Sessions :
       /\ EmptyNameJoined(s) /\ pc'[s] # pc[s] =>
            /\ pc'[s] = "Closed"
            /\ out'[s] = IF connected[s]
                         THEN Append(out[s], SocketMessage("error", "Failed to connect to room!", "", ""))
                         ELSE out[s]
            /\ UNCHANGED <<rxq, lagged, subscribed>>
       /\ pc'[s] = "Relaying" => username'[s] # ""
       /\ AnonymousEvents(rxq'[s]) \cup AnonymousEvents(out'[s]) = {}]_vars

\* a session was closed by the guard with the Error event, while the other
\* session relays in the room the refused request named
C16_Witness ==
  \E s, t \in Sessions :
    /\ pc[s] = "Closed" /\ username[s] = ""
    /\ out[s] = <<SocketMessage("error", "Failed to connect to room!", "", "")>>
    /\ pc[t] = "Relaying" /\ subscribed[t] /\ "" \in users[tx[t]]

\* the replies to liveness probes in a sequence of frames
PongFrames(q) == SelectSeq(q, LAMBDA e : e = PongFrame)

\* the step reads a binary frame tagged 0x9 from the connection of s
ProbeRead(s) == pings'[s] = pings[s] + 1

\* what a liveness probe of s must leave alone: the state of every session,
\* the registry, the memberships, the contents, the receivers of the
\* broadcast channels and what the other connections were sent
ProbeFrame(s) ==
  /\ UNCHANGED <<pc, connected, username, channel, snap, tx, text, frames>>
  /\ UNCHANGED <<rooms, nextInst, instRoom, users, content, db>>
  /\ UNCHANGED <<rxq, lagged, subscribed>>
  /\ \A t \in Sessions \ {s} : out'[t] = out[t] /\ sendPc'[t] = sendPc[t]

\* C17: a binary frame tagged 0x9 read in Connecting is answered in the
\* same step with one 0xA frame; read in Relaying it makes send_messages
\* write one 0xA frame as its next step, unless the session is torn down
\* first; reading the probe and writing the reply change nothing else, and
\* a connection is never sent more 0xA frames than it sent probes (in
\* Connecting: exactly as many).
C17_LivenessProbe ==
  [][\A s \in Sessions :
       /\ ProbeRead(s) /\ pc[s] = "Connecting" =>
            /\ out'[s] = Append(out[s], PongFrame)
            /\ sendPc'[s] = sendPc[s]
            /\ ProbeFrame(s)
       /\ ProbeRead(s) /\ pc[s] = "Relaying" =>
            /\ sendPc[s] = "idle" /\ sendPc'[s] = "pong"
            /\ out'[s] = out[s]
            /\ ProbeFrame(s)
       /\ sendPc[s] = "pong" /\ sendPc'[s] # "pong" =>
            \/ /\ sendPc'[s] = "idle"
               /\ out'[s] = IF connected[s] THEN Append(out[s], PongFrame)
                            ELSE out[s]
               /\ pings'[s] = pings[s]
               /\ ProbeFrame(s)
            \/ sendPc'[s] = "ended" /\ pc'[s] = "Cleanup"
       /\ Len(PongFrames(out'[s])) <= pings'[s]
       /\ pc'[s] = "Connecting" => Len(PongFrames(out'[s])) = pings'[s]]_vars

\* a connection got a reply to a probe before its join and another one
\* while Relaying in a room that has content, with the other session
\* Relaying in the same room
C17_Witness ==
  \E s, t \in Sessions :
    /\ s # t
    /\ pc[s] = "Relaying" /\ sendPc[s] = "idle" /\ pings[s] = 2
    /\ Len(PongFrames(out[s])) = 2
    /\ out[s][1] = PongFrame /\ out[s][Len(out[s])] = PongFrame
    /\ Len(out[s]) > 2
    /\ pc[t] = "Relaying" /\ tx[t] = tx[s]
    /\ content[tx[s]] # EmptyContent

\* the step is the notification of the other rooms by the joining session s
NotifyStep(s) == pc[s] = "Joined" /\ pc'[s] = "Notified"

\* the channels of the rooms of the registry other than the room s joined
OtherChannels(s) == {rooms[q] : q \in RoomKeys(rooms) \ {channel[s]}}

\* the notification of s puts exactly one update-rooms-list event on the
\* channel of every other room of the registry and none anywhere else
NotifiesOthersOnce(s) ==
  \A t \in Sessions :
    rxq'[t] = IF subscribed[t] /\ tx[t] \in OtherChannels(s)
              THEN Enqueue(rxq[t], SocketMessage("update-rooms-list", NoValue, "", channel[s]))
              ELSE rxq[t]

\* C18: when a joining session publishes its update-rooms-list events,
\* every other room of the registry gets exactly one and the joined room R
\* none, R is in the registry under the channel the session holds, and the
\* joiner's username is in R's membership set.
C18_JoinNotification ==
  [][\A s \in Sessions :
       NotifyStep(s) =>
         /\ NotifiesOthersOnce(s)
         /\ rooms[channel[s]] # 0
         /\ rooms[channel[s]] = tx[s]
         /\ username[s] \in users[tx[s]]]_vars

\* the step is the return of handle_socket after the teardown of s
ClosingStep(s) == pc[s] = "Cleanup" /\ pc'[s] = "Closed"

\* C19: the step by which a session that was Relaying in room R closes
\* (its teardown done, its username taken out of R's membership set) puts
\* one update-rooms-list event on the channel of every room of the registry
\* other than R, as the notification of a join and that of a removal do.
C19_LeaveNotification ==
  [][\A s \in Sessions :
       ClosingStep(s) =>
         \A t \in Sessions :
           subscribed[t] /\ tx[t] \in OtherChannels(s) =>
             rxq'[t] = Enqueue(rxq[t], SocketMessage("update-rooms-list", NoValue, "", channel[s]))]_vars

\* the step is the entry of s into the Relaying state: subscription and
\* send of the Join event
EnterStep(s) == pc[s] = "Notified" /\ pc'[s] = "Relaying"

\* the Join event of s
JoinEvent(s) == SocketMessage("join", NoValue, username[s], channel[s])

\* C20: the step by which a session enters Relaying registers its
\* subscription and then publishes one Join event with its username: the
\* event is the first one of the session's own receiver and is appended to
\* the receiver of every session already Relaying with the same room
\* identifier; the session publishes its Message events and its Leave event
\* only after that step.
C20_OwnJoinObserved ==
  [][\A s \in Sessions :
       /\ EnterStep(s) =>
            /\ subscribed'[s] /\ rxq'[s] = <<JoinEvent(s)>>
            /\ \A t \in Sessions \ {s} :
                 pc[t] = "Relaying" /\ channel[t] = channel[s] =>
                   rxq'[t] = Enqueue(rxq[t], JoinEvent(s))
       /\ PublishStep(s) \/ TeardownStep(s) => sendPc[s] # "none"]_vars

\* the step overruns the receiver of s: a send finds its buffer full
OverrunStep(s) == subscribed[s] /\ ~lagged[s] /\ lagged'[s]

\* C21: a Relaying session is torn down only when its peer is gone (the
\* inbound stream ended or a write to the connection failed); a send that
\* finds the receiver of a session full drops the oldest event, appends the
\* new one and leaves the session Relaying, and the session is not torn
\* down for having been overrun.
C21_SlowConsumerKeepsSession ==
  [][\A s \in Sessions :
       /\ TeardownStep(s) => ~connected[s]
       /\ OverrunStep(s) =>
            /\ pc'[s] = pc[s]
            /\ Len(rxq'[s]) = BufCap
            /\ \A i \in 1..(BufCap - 1) : rxq'[s][i] = rxq[s][i + 1]]_vars

\* the step is the answer of get_rooms
ListStep == listing' # NoListing

\* the channels in use before a step: those of the rooms of the registry
\* and those the sessions hold
ChannelsInUse == {rooms[q] : q \in RoomKeys(rooms)} \cup {tx[t] : t \in Sessions}

\* C22: the join block of a session for a room identifier the registry
\* does not have creates exactly one room for it, with a channel nothing
\* else uses and the joiner as its only member; for an identifier the
\* registry has (a concurrent join created it first) it creates none, takes
\* the channel of that room and adds the joiner to the members already
\* there; either way the joiner holds the channel the registry has for the
\* identifier.  The answer of get_rooms has exactly one entry for every
\* room of the registry, "general" among them, with the room's current
\* members, each once, and no other entry.
C22_GetOrCreateAndListing ==
  [][/\ \A s \in Sessions : JoinStep(s) =>
          LET r == channel'[s] IN
          /\ tx'[s] = rooms'[r] /\ tx'[s] # 0
          /\ \A q \in RoomIds \ {r} : rooms'[q] = rooms[q]
          /\ \A i \in Insts \ {tx'[s]} : users'[i] = users[i]
          /\ IF rooms[r] = 0
             THEN /\ tx'[s] \notin ChannelsInUse
                  /\ users'[tx'[s]] = {username'[s]}
             ELSE /\ rooms'[r] = rooms[r]
                  /\ nextInst' = nextInst
                  /\ users'[tx'[s]] = users[tx'[s]] \cup {username'[s]}
     /\ ListStep =>
          /\ DefaultRoom \in RoomKeys(rooms)
          /\ {room.id : room \in BagToSet(listing')} = RoomKeys(rooms)
          /\ Cardinality(BagToSet(listing')) = Cardinality(RoomKeys(rooms))
          /\ \A room \in BagToSet(listing') :
               /\ CopiesIn(room, listing') = 1
               /\ BagToSet(room.users) = users[rooms[room.id]]
               /\ \A u \in BagToSet(room.users) : CopiesIn(u, room.users) = 1]_vars

\* two sessions that joined the same new room under different names are
\* Relaying on one channel, and a listing has just reported "general" and
\* the new room with both names
C22_Witness ==
  \E s, t \in Sessions :
    /\ s # t
    /\ pc[s] = "Relaying" /\ pc[t] = "Relaying"
    /\ channel[s] = "r1" /\ channel[t] = "r1"
    /\ tx[s] = tx[t] /\ tx[s] = rooms["r1"]
    /\ username[s] # username[t]
    /\ users[tx[s]] = {username[s], username[t]}
    /\ listing = SetToBag({[id |-> DefaultRoom, users |-> CollectUsers({})],
                           [id |-> "r1", users |-> CollectUsers({username[s], username[t]})]})

\* a request of remove_room waits for the answer of its DELETE statement
DeleteInFlight == rmPc = "deleting"

\* C23: whenever a task waits for an I/O operation (here the DELETE of
\* remove_room, the only I/O the model has inside a handler that locks the
\* registry), the registry lock is free.
C23_NoLockAcrossIO == DeleteInFlight => roomsLock = "free"

\* send_messages of s is at receiver.next(): the next text frame of the
\* connection is relayed as soon as the registry lock is granted
ReadyToRelay(s) == pc[s] = "Relaying" /\ sendPc[s] = "idle" /\ connected[s]

\* C24: a session ready to relay an inbound text frame in room A never
\* finds the registry lock held by an operation on another room B: the
\* lock it needs for its content update is free, or held for A itself.
C24_RoomsDoNotBlock ==
  \A s \in Sessions :
    ReadyToRelay(s) => roomsLock = "free" \/ rmId = channel[s]

\* the sessions that joined room identifier r under the name u and have
\* not reached Closed
LiveSessions(r, u) ==
  {s \in Sessions : pc[s] \in {"Joined", "Notified", "Relaying", "Cleanup"}
                    /\ channel[s] = r /\ username[s] = u}

\* C25: every session in the Relaying state whose room identifier is in
\* the registry has its username in the membership set of that room, and
\* every name in the membership set of a room of the registry is the name
\* of a session that joined the room and has not reached Closed.
C25_MembershipReflectsSessions ==
  /\ \A s \in Sessions :
       pc[s] = "Relaying" /\ rooms[channel[s]] # 0 =>
         username[s] \in users[rooms[channel[s]]]
  /\ \A r \in RoomKeys(rooms) :
       \A u \in users[rooms[r]] : LiveSessions(r, u) # {}

\* C26: all sessions in the Relaying state with the same room identifier
\* hold the same broadcast channel, and when the registry has a room under
\* that identifier it is the channel of that room.
C26_OneChannelPerRoomId ==
  \A s \in Sessions :
    pc[s] = "Relaying" =>
      /\ rooms[channel[s]] # 0 => tx[s] = rooms[channel[s]]
      /\ \A t \in Sessions :
           pc[t] = "Relaying" /\ channel[t] = channel[s] => tx[t] = tx[s]

\* the Message events of the sessions (not the initial message of the
\* server) that s was sent or has in its receiver, oldest first
MessagesSeen(s) ==
  SelectSeq(out[s] \o rxq[s],
            LAMBDA e : e.type = "message" /\ e.username # "Server")

\* no text frame is between its content update and the send of its event
NoFrameInFlight == \A s \in Sessions : sendPc[s] \notin {"publish", "publishA"}

\* C27: once no inbound frame is in flight, the content of a room equals
\* the value of the last Message event published on its channel, as seen
\* by any session Relaying on the channel of that room.
C27_ContentFollowsEvents ==
  NoFrameInFlight =>
    \A s \in Sessions :
      (/\ pc[s] = "Relaying" /\ subscribed[s]
       /\ rooms[channel[s]] = tx[s]
       /\ MessagesSeen(s) # <<>>)
      => MessagesSeen(s)[Len(MessagesSeen(s))].value = content[tx[s]]

\* the initial messages of the server among the frames written to s
InitialSeen(s) ==
  SelectSeq(out[s], LAMBDA e : e.type = "message" /\ e.username = "Server")

\* the content a client of s ends at: the value of the last Message event
\* it was sent or has in its receiver, or that of the initial message when
\* there is none
ClientContent(s) ==
  IF MessagesSeen(s) # <<>>
  THEN MessagesSeen(s)[Len(MessagesSeen(s))].value
  ELSE InitialSeen(s)[1].value

\* C28: for a session that is Relaying on the channel of its room, was sent
\* its initial message and has not been overrun, once no inbound frame is
\* in flight the initial content followed by the Message events it
\* received ends at the room's current content.
C28_NoUpdateLostAcrossJoin ==
  NoFrameInFlight =>
    \A s \in Sessions :
      (/\ pc[s] = "Relaying" /\ subscribed[s] /\ ~lagged[s]
       /\ rooms[channel[s]] = tx[s]
       /\ InitialSeen(s) # <<>>)
      => ClientContent(s) = content[tx[s]]

\* the step is one of a join that fails: the join block run for an empty
\* username (the guard will refuse it), the answer to a malformed frame, or
\* the end of the stream before any join frame
FailedJoinStep(s) ==
  \/ JoinStep(s) /\ username'[s] = ""
  \/ EmptyNameJoined(s) /\ pc'[s] = "Closed"
  \/ pc[s] = "Connecting" /\ pc'[s] = "Closed"

\* C29: no step of a session that goes from Connecting to Closed without
\* entering Relaying changes the registry or a membership set.
C29_FailedJoinChangesNothing ==
  [][\A s \in Sessions :
       FailedJoinStep(s) =>
         /\ rooms' = rooms
         /\ \A r \in RoomKeys(rooms') : users'[rooms'[r]] = users[rooms'[r]]]_vars

\* the step is the return of remove_room with an error
RemoveFailedStep == response'.status = BadRequest

\* C30: the step by which remove_room returns an error leaves the registry
\* and every receiver as they are, and the room the request named, when the
\* call found it in the registry (it got as far as the DELETE), is in the
\* registry after the error.
C30_FailedRemovalChangesNothing ==
  [][RemoveFailedStep =>
       /\ rooms' = rooms
       /\ UNCHANGED <<rxq, lagged>>
       /\ DeleteInFlight => rooms'[rmId] # 0]_vars

\* the mutexes a task holds
HoldsUsers(t) == \E r \in RoomIds : mUsers[r] = t
HoldsSender(t) == \E c \in Conns : mSender[c] = t

\* the task waits for the registry lock
WaitsForRooms(t) ==
  Running(t) /\ ~AtEnd(t) /\ Instr(t).k = "lock" /\ Instr(t).l = "rooms"

\* the lock discipline: a membership lock is held by the holder of the
\* registry lock only, and a task that waits for the registry lock holds
\* neither a membership lock nor a sender lock
LockDiscipline ==
  /\ \A r \in RoomIds : mUsers[r] # 0 => mRooms = mUsers[r]
  /\ \A t \in LockTasks : WaitsForRooms(t) => ~HoldsUsers(t) /\ ~HoldsSender(t)

\* C31: in every state the lock discipline holds (membership locks only
\* under the registry lock, no wait for the registry lock with a membership
\* or sender lock held), and under any interleaving of joins, relays,
\* teardowns, listings, removals and writes to the connections every
\* operation a task has started completes, each of its lock requests having
\* been granted.
C31_DeadlockFreedom ==
  /\ []LockDiscipline
  /\ \A t \in LockTasks : Running(t) ~> ~Running(t)

\* three operations contend: a removal holds the registry lock across its
\* DELETE, a join waits for the registry lock, and a task of the other
\* connection writes a frame under its sender lock
C31_Witness ==
  \E a, b, c \in LockTasks :
    /\ tOp[a] = "remove" /\ mRooms = a /\ Instr(a).k = "io"
    /\ tOp[b] = "join" /\ WaitsForRooms(b)
    /\ tOp[c] = "reply" /\ mSender[ConnOf(c)] = c

====
